---- MODULE Spec2Model ----
(***************************************************************************)
(* Support widget controller (static/js/support_widget.js).                *)
(*                                                                         *)
(* The browser runs one handler at a time: a click or submit handler, or   *)
(* the promise chain of one resolved fetch.  The first `then` of a chain   *)
(* only tests r.ok and touches no state; the handlers that follow it       *)
(* (then / catch / finally) run back to back once the body has arrived or  *)
(* the request has failed, so a response is one atomic step here.  alert() *)
(* is modal, so nothing interleaves with it.  A panel carrying d-none is   *)
(* not displayed, so the user types, picks a file, submits and clicks the  *)
(* close control only while the panel is shown.                            *)
(*                                                                         *)
(* The markup returned by GET /support/widget/ is an input.  It always     *)
(* holds the form #support-form with a textarea, a file input and a        *)
(* button[type="submit"], the close control and the list #support-messages *)
(* (the markup contract of spec section 6), so the tests `if (form)`,      *)
(* `if (closeBtn)`, `if (submitBtn)`, `textarea ?` and `if (fileInput)` of *)
(* the source take their present branch.  The label of the button and the  *)
(* content of the list are left open.                                      *)
(***************************************************************************)
EXTENDS Naturals, FiniteSets, Sequences

\* ---- bounds -------------------------------------------------------------
MaxToggles == 3   \* toggle clicks in one run
MaxGets    == 2   \* GET requests issued in one run (= form instances built)
MaxSubmits == 2   \* submit events in one run (so as many POST requests at most)
MaxCookies == 2   \* cookies the browser holds for the document

\* ---- values -------------------------------------------------------------
\* textContent the finalizer writes, line 121 (Cyrillic in the source)
DefaultLabel  == "Otpravit"
\* textContent while a submit is in flight, line 75
ProgressLabel == "..."
\* labels the loaded markup may give the submit button
Labels == {DefaultLabel, "Send"}
\* values of textarea[name="text"]
Texts  == {"", "a"}
\* innerHTML values of #support-messages
Msgs   == {"m1", "m2"}
\* a POST response without an element #support-messages (line 96 gives null)
NoList == "none"
\* the markup a successful GET may return
Markups == [label : Labels, messages : Msgs]
\* how a request can fail: r.ok false (lines 38, 90) or a rejected promise
Failures == {"status", "network"}
\* typeof window.threadUpdatedAt === 'undefined' (line 107)
Undefined == "undefined"
\* results of new Date().toISOString() (line 108); "t0" is a timestamp the page
\* itself stored before
Times == {"t1"}

\* ---- cookie strings ------------------------------------------------------
\* A string is a sequence of symbols: ";", "=", " ", the nine characters
\* csrftoken taken as one symbol, and "x", "v", "w" for any other characters.
\* var name = "csrftoken" (line 11)
CookieName == <<"csrftoken">>
\* names of cookies: csrftoken itself, names it is a suffix or a prefix of,
\* and an unrelated name
CookieNames ==
  {CookieName, <<"x", "csrftoken">>, <<"csrftoken", "x">>, <<"x">>}
\* values of cookies
CookieValues == {<< >>, <<"v">>, <<"w">>, <<"v", "=", "w">>}
Cookies == [name : CookieNames, value : CookieValues]
\* the cookie stores of up to n cookies
RECURSIVE JarsUpTo(_)
JarsUpTo(n) ==
  IF n = 0 THEN {<< >>}
  ELSE LET J == JarsUpTo(n - 1)
       IN  J \cup {Append(j, c) : j \in {k \in J : Len(k) = n - 1}, c \in Cookies}
Jars == JarsUpTo(MaxCookies)

VARIABLES
  loaded,      \* line 6
  hidden,      \* panel.classList contains "d-none"
  forms,       \* the form instances that exist, by the number of the load that
               \* built them: the newest is in the document, an older one is
               \* detached and lives as long as the closure of an in-flight
               \* submit refers to it
  messages,    \* innerHTML of the document's #support-messages (NoList before load)
  getsOut,     \* GET requests in flight
  posts,       \* POST requests in flight: the form and the text their closure
               \* captured, the X-CSRFToken header sent, and two history
               \* fields (kept when `history` names them): the label of the button
               \* before the submit event, and whether the user has edited the
               \* textarea of the form since
  getsIssued, getFailures, postsIssued, postFailures,
  alerts,      \* alert() calls so far
  toggles,     \* clicks on #support-toggle so far
  submits,     \* submit events so far
  closeClicked,\* some click on .support-panel-close has happened
  jar,         \* the cookies the browser holds for the document, in the order
               \* document.cookie lists them
  threadUpdatedAt, \* window.threadUpdatedAt
  history      \* the history fields of the requests that are kept; they
               \* serve the properties only, no handler reads them

vars == <<loaded, hidden, forms, messages, getsOut, posts, getsIssued,
          getFailures, postsIssued, postFailures, alerts, toggles, submits,
          closeClicked, jar, threadUpdatedAt, history>>

\* the newest of a set of form instances (0: none)
Newest(S) == IF S = {} THEN 0 ELSE CHOOSE f \in S : \A g \in S : g <= f

\* the form instance in the document (0: none yet), line 44
cur == Newest(DOMAIN forms)

\* the instances of fs that the document or a closure of ps still refers to
Reachable(fs, ps) ==
  [f \in {g \in DOMAIN fs : g = Newest(DOMAIN fs) \/ \E p \in ps : p.form = g}
     |-> fs[f]]

\* document.cookie: the cookies as name=value, joined by "; "
RECURSIVE Serialize(_)
Serialize(j) ==
  IF j = << >> THEN << >>
  ELSE LET first == j[1].name \o <<"=">> \o j[1].value
       IN  IF Len(j) = 1 THEN first
           ELSE first \o <<";", " ">> \o Serialize(Tail(j))

documentCookie == Serialize(jar)

\* String.prototype.split(";") (line 12)
RECURSIVE Split(_)
Split(s) ==
  IF \A i \in 1..Len(s) : s[i] # ";" THEN <<s>>
  ELSE LET i == CHOOSE k \in 1..Len(s) :
                  s[k] = ";" /\ \A h \in 1..(k - 1) : s[h] # ";"
       IN  <<SubSeq(s, 1, i - 1)>> \o Split(SubSeq(s, i + 1, Len(s)))

\* no trim at all: the space after each ";" stays in front of the name
Trim_none(c) == c

\* String.prototype.trim() (line 14)
RECURSIVE Trim(_)
Trim(c) ==
  IF c = << >> THEN c
  ELSE IF Head(c) = " " THEN Trim(Tail(c))
  ELSE IF c[Len(c)] = " " THEN Trim(SubSeq(c, 1, Len(c) - 1))
  ELSE c

\* c.indexOf(prefix) === 0 (line 15)
StartsWith(c, prefix) ==
  Len(c) >= Len(prefix) /\ SubSeq(c, 1, Len(prefix)) = prefix

\* lines 13-17: the loop over cookies from index i on
RECURSIVE ScanCookies(_, _)
ScanCookies(cookies, i) ==
  IF i > Len(cookies) THEN << >>
  ELSE LET c == Trim(cookies[i])
       IN  IF StartsWith(c, CookieName \o <<"=">>)
             THEN SubSeq(c, Len(CookieName) + 2, Len(c))
             ELSE ScanCookies(cookies, i + 1)

\* lines 10-18
getCsrfToken == ScanCookies(Split(documentCookie), 1)

\* the DOM a piece of markup parses to (panel.innerHTML = html, line 42)
NewForm(m) ==
  [disabled |-> FALSE, label |-> m.label, text |-> "", file |-> FALSE]

\* the widget after lines 1-8, on a page whose only cookie is csrftoken
WidgetInit ==
  /\ loaded = FALSE
  /\ hidden = TRUE
  /\ forms = << >>
  /\ messages = NoList
  /\ getsOut = 0
  /\ posts = {}
  /\ getsIssued = 0
  /\ getFailures = 0
  /\ postsIssued = 0
  /\ postFailures = 0
  /\ alerts = 0
  /\ toggles = 0
  /\ submits = 0
  /\ closeClicked = FALSE
  /\ jar = <<[name |-> CookieName, value |-> <<"v">>]>>

\* the page does not define window.threadUpdatedAt
Init ==
  /\ WidgetInit
  /\ threadUpdatedAt = Undefined
  /\ history = {}

\* ---- panel ----------------------------------------------------------------
showPanel == hidden' = FALSE

hidePanel == hidden' = TRUE

\* loadPanel without the test of `loaded` (lines 29-32 dropped)
loadPanel_refetch ==
  /\ getsIssued < MaxGets
  /\ getsOut' = getsOut + 1
  /\ getsIssued' = getsIssued + 1
  /\ UNCHANGED hidden

\* loadPanel that reveals the panel before the markup has arrived
loadPanel_showFirst ==
  IF loaded
    THEN /\ showPanel
         /\ UNCHANGED <<getsOut, getsIssued>>
    ELSE /\ getsIssued < MaxGets
         /\ getsOut' = getsOut + 1
         /\ getsIssued' = getsIssued + 1
         /\ showPanel

\* loadPanel guarded by a flag that is set at the first fetch and never cleared
loadPanel_fetchOnce ==
  IF loaded
    THEN /\ showPanel
         /\ UNCHANGED <<getsOut, getsIssued>>
    ELSE IF getsIssued > 0
      THEN UNCHANGED <<hidden, getsOut, getsIssued>>
      ELSE /\ getsOut' = getsOut + 1
           /\ getsIssued' = getsIssued + 1
           /\ UNCHANGED hidden

\* lines 28-36: the synchronous part of loadPanel
loadPanel ==
  IF loaded
    THEN /\ showPanel
         /\ UNCHANGED <<getsOut, getsIssued>>
    ELSE /\ getsIssued < MaxGets
         /\ getsOut' = getsOut + 1
         /\ getsIssued' = getsIssued + 1
         /\ UNCHANGED hidden

\* lines 126-133: click on #support-toggle
Toggle ==
  /\ toggles < MaxToggles
  /\ toggles' = toggles + 1
  /\ IF hidden
       THEN loadPanel
       ELSE hidePanel /\ UNCHANGED <<getsOut, getsIssued>>
  /\ UNCHANGED <<loaded, forms, messages, posts, getFailures, postsIssued,
                 postFailures, alerts, submits, closeClicked,
                 jar, threadUpdatedAt, history>>

\* a success handler that forgets line 43 (loaded = true)
LoadSuccess_noFlag(m) ==
  /\ getsOut > 0
  /\ getsOut' = getsOut - 1
  /\ forms' = Reachable([f \in DOMAIN forms \cup {cur + 1} |->
                            IF f = cur + 1 THEN NewForm(m) ELSE forms[f]],
                         posts)
  /\ messages' = m.messages
  /\ showPanel
  /\ UNCHANGED <<loaded, posts, getsIssued, getFailures, postsIssued,
                 postFailures, alerts, toggles, submits, closeClicked,
                 jar, threadUpdatedAt, history>>

\* lines 41-54: a GET resolved with r.ok and its body
LoadSuccess(m) ==
  /\ getsOut > 0
  /\ getsOut' = getsOut - 1
  /\ forms' = Reachable([f \in DOMAIN forms \cup {cur + 1} |->
                            IF f = cur + 1 THEN NewForm(m) ELSE forms[f]],
                         posts)
  /\ messages' = m.messages
  /\ loaded' = TRUE
  /\ showPanel
  /\ UNCHANGED <<posts, getsIssued, getFailures, postsIssued, postFailures,
                 alerts, toggles, submits, closeClicked,
                 jar, threadUpdatedAt, history>>

\* a failure handler that also marks the panel loaded
LoadFailure_marksLoaded(k) ==
  /\ getsOut > 0
  /\ getsOut' = getsOut - 1
  /\ getFailures' = getFailures + 1
  /\ alerts' = alerts + 1
  /\ loaded' = TRUE
  /\ UNCHANGED <<hidden, forms, messages, posts, getsIssued, postsIssued,
                 postFailures, toggles, submits, closeClicked,
                 jar, threadUpdatedAt, history>>

\* a failure handler that only logs: no alert
LoadFailure_silent(k) ==
  /\ getsOut > 0
  /\ getsOut' = getsOut - 1
  /\ getFailures' = getFailures + 1
  /\ UNCHANGED <<loaded, hidden, forms, messages, posts, getsIssued, alerts,
                 postsIssued, postFailures, toggles, submits, closeClicked,
                 jar, threadUpdatedAt, history>>

\* a failure handler that fetches again by itself
LoadFailure_retries(k) ==
  /\ getsOut > 0
  /\ getsIssued < MaxGets
  /\ getsIssued' = getsIssued + 1
  /\ getFailures' = getFailures + 1
  /\ alerts' = alerts + 1
  /\ UNCHANGED <<loaded, hidden, forms, messages, getsOut, posts,
                 postsIssued, postFailures, toggles, submits, closeClicked,
                 jar, threadUpdatedAt, history>>

\* lines 38 and 55-57: a GET resolved with a non-success status or rejected
LoadFailure(k) ==
  /\ getsOut > 0
  /\ getsOut' = getsOut - 1
  /\ getFailures' = getFailures + 1
  /\ alerts' = alerts + 1
  /\ UNCHANGED <<loaded, hidden, forms, messages, posts, getsIssued,
                 postsIssued, postFailures, toggles, submits, closeClicked,
                 jar, threadUpdatedAt, history>>

\* line 50: click on the close control of the panel content in the document
Close ==
  /\ cur > 0
  /\ ~hidden
  /\ hidePanel
  /\ closeClicked' = TRUE
  /\ UNCHANGED <<loaded, forms, messages, getsOut, posts, getsIssued,
                 getFailures, postsIssued, postFailures, alerts, toggles,
                 submits,
                 jar, threadUpdatedAt, history>>

\* ---- form ----------------------------------------------------------------
\* the user edits the textarea of the form in the document
Type(v) ==
  /\ cur > 0
  /\ ~hidden
  /\ forms[cur].text # v
  /\ forms' = [forms EXCEPT ![cur].text = v]
  /\ posts' = {IF "edited" \in history /\ p.form = cur
                  THEN [p EXCEPT !.edited = TRUE]
                  ELSE p : p \in posts}
  /\ UNCHANGED <<loaded, hidden, messages, getsOut, getsIssued,
                 getFailures, postsIssued, postFailures, alerts, toggles,
                 submits, closeClicked,
                 jar, threadUpdatedAt, history>>

\* the user picks a file in the file input of the form in the document
SelectFile ==
  /\ cur > 0
  /\ ~hidden
  /\ ~forms[cur].file
  /\ forms' = [forms EXCEPT ![cur].file = TRUE]
  /\ UNCHANGED <<loaded, hidden, messages, getsOut, posts, getsIssued,
                 getFailures, postsIssued, postFailures, alerts, toggles,
                 submits, closeClicked,
                 jar, threadUpdatedAt, history>>

\* lines 78-88: the request a submit of form instance f issues
NewPost(f) ==
  [id |-> postsIssued + 1, form |-> f, submittedText |-> forms[f].text,
   csrf |-> getCsrfToken,
   labelBefore |-> IF "labelBefore" \in history THEN forms[f].label ELSE "",
   edited |-> FALSE]

\* onSubmit without the test of submitBtn.disabled (line 72 dropped)
onSubmit_noGuard(f) ==
  /\ forms' = [forms EXCEPT ![f] =
                 [@ EXCEPT !.disabled = TRUE, !.label = ProgressLabel]]
  /\ posts' = posts \cup {NewPost(f)}
  /\ postsIssued' = postsIssued + 1

\* onSubmit that relabels the button but forgets line 74 (disabled = true)
onSubmit_noDisable(f) ==
  IF forms[f].disabled
    THEN UNCHANGED <<forms, posts, postsIssued>>
    ELSE /\ forms' = [forms EXCEPT ![f] = [@ EXCEPT !.label = ProgressLabel]]
         /\ posts' = posts \cup {NewPost(f)}
         /\ postsIssued' = postsIssued + 1

\* lines 65-88: the submit handler on form instance f, up to the fetch
onSubmit(f) ==
  IF forms[f].disabled
    THEN UNCHANGED <<forms, posts, postsIssued>>
    ELSE /\ forms' = [forms EXCEPT ![f] =
                        [@ EXCEPT !.disabled = TRUE, !.label = ProgressLabel]]
         /\ posts' = posts \cup {NewPost(f)}
         /\ postsIssued' = postsIssued + 1

\* line 46: a submit event on the form in the document
Submit ==
  /\ cur > 0
  /\ ~hidden
  /\ submits < MaxSubmits
  /\ submits' = submits + 1
  /\ onSubmit(cur)
  /\ UNCHANGED <<loaded, hidden, messages, getsOut, getsIssued, getFailures,
                 postFailures, alerts, toggles, closeClicked,
                 jar, threadUpdatedAt, history>>

\* a success handler that clears the textarea whatever it holds
ClearInputs_always(fs, p) ==
  [fs EXCEPT ![p.form] = [@ EXCEPT !.text = "", !.file = FALSE]]

\* lines 101-106: what the success handler does to the form it was issued for
ClearInputs(fs, p) ==
  [fs EXCEPT ![p.form] =
     [@ EXCEPT !.text = IF @ = p.submittedText THEN "" ELSE @,
               !.file = FALSE]]

\* a finalizer that re-enables the button and forgets line 121 (textContent)
SubmitFinally_keepsLabel(fs, f) ==
  [fs EXCEPT ![f] = [@ EXCEPT !.disabled = FALSE]]

\* lines 118-123: the finalizer of the submit of form instance f
SubmitFinally(fs, f) ==
  [fs EXCEPT ![f] = [@ EXCEPT !.disabled = FALSE, !.label = DefaultLabel]]

\* line 108 without the test of line 107
Touch_always(t) == t

\* lines 107-109: window.threadUpdatedAt after a success handler that ran at
\* time t
Touch(t) ==
  IF threadUpdatedAt # Undefined /\ threadUpdatedAt # "" THEN t
  ELSE threadUpdatedAt

\* a success handler that leaves the list of the document as it is
NewMessages_keep(r) == messages

\* lines 94-100: the list of the document after a response whose
\* #support-messages holds r
NewMessages(r) == IF r # NoList /\ messages # NoList THEN r ELSE messages

\* lines 93-114 and 118-123: POST p resolved with r.ok and a body whose
\* #support-messages holds r (NoList: the body has no such element), at time t
SubmitSuccess(p, r, t) ==
  /\ p \in posts
  /\ posts' = posts \ {p}
  /\ messages' = NewMessages(r)
  /\ forms' = Reachable(SubmitFinally(ClearInputs(forms, p), p.form), posts')
  /\ threadUpdatedAt' = Touch(t)
  /\ UNCHANGED <<loaded, hidden, getsOut, getsIssued, getFailures, postsIssued,
                 postFailures, alerts, toggles, submits, closeClicked, jar,
                 history>>

\* a failure path that skips the finalizer (the button is re-enabled in the
\* success handler only)
SubmitFailure_noFinally(p, k) ==
  /\ p \in posts
  /\ posts' = posts \ {p}
  /\ postFailures' = postFailures + 1
  /\ alerts' = alerts + 1
  /\ forms' = Reachable(forms, posts')
  /\ UNCHANGED <<loaded, hidden, messages, getsOut, getsIssued, getFailures,
                 postsIssued, toggles, submits, closeClicked,
                 jar, threadUpdatedAt, history>>

\* a failure path that shares the cleanup of the success handler
SubmitFailure_clears(p, k) ==
  /\ p \in posts
  /\ posts' = posts \ {p}
  /\ postFailures' = postFailures + 1
  /\ alerts' = alerts + 1
  /\ forms' = Reachable(SubmitFinally(ClearInputs(forms, p), p.form), posts')
  /\ UNCHANGED <<loaded, hidden, messages, getsOut, getsIssued, getFailures,
                 postsIssued, toggles, submits, closeClicked,
                 jar, threadUpdatedAt, history>>

\* lines 90 and 115-123: POST p resolved with a non-success status or rejected
SubmitFailure(p, k) ==
  /\ p \in posts
  /\ posts' = posts \ {p}
  /\ postFailures' = postFailures + 1
  /\ alerts' = alerts + 1
  /\ forms' = Reachable(SubmitFinally(forms, p.form), posts')
  /\ UNCHANGED <<loaded, hidden, messages, getsOut, getsIssued, getFailures,
                 postsIssued, toggles, submits, closeClicked,
                 jar, threadUpdatedAt, history>>

Next ==
  \/ Toggle
  \/ \E m \in Markups : LoadSuccess(m)
  \/ \E k \in Failures : LoadFailure(k)
  \/ Close
  \/ \E v \in Texts : Type(v)
  \/ SelectFile
  \/ Submit
  \/ \E p \in posts : \E r \in Msgs \cup {NoList} : \E t \in Times :
       SubmitSuccess(p, r, t)
  \/ \E p \in posts : \E k \in Failures : SubmitFailure(p, k)

Spec == Init /\ [][Next]_vars

\* ---- the widget on a page that may define window.threadUpdatedAt ----------
EnvInit ==
  /\ WidgetInit
  /\ threadUpdatedAt \in {Undefined, "", "t0"}
  /\ history = {}

EnvSpec == EnvInit /\ [][Next]_vars

\* ---- the widget with a history field of its requests kept ----------------
EditInit ==
  /\ WidgetInit
  /\ threadUpdatedAt = Undefined
  /\ history = {"edited"}

EditSpec == EditInit /\ [][Next]_vars

LabelInit ==
  /\ WidgetInit
  /\ threadUpdatedAt = Undefined
  /\ history = {"labelBefore"}

LabelSpec == LabelInit /\ [][Next]_vars

\* ---- submits under every cookie store ------------------------------------
\* the browser stores one more cookie (a Set-Cookie of some response, or a
\* script of the page)
AddCookie(c) ==
  /\ Len(jar) < MaxCookies
  /\ jar' = Append(jar, c)
  /\ UNCHANGED <<loaded, hidden, forms, messages, getsOut, posts, getsIssued,
                 getFailures, postsIssued, postFailures, alerts, toggles,
                 submits, closeClicked, threadUpdatedAt, history>>

\* the oldest cookie expires
ExpireCookie ==
  /\ jar # << >>
  /\ jar' = Tail(jar)
  /\ UNCHANGED <<loaded, hidden, forms, messages, getsOut, posts, getsIssued,
                 getFailures, postsIssued, postFailures, alerts, toggles,
                 submits, closeClicked, threadUpdatedAt, history>>

\* the panel has been opened once, by one GET that succeeded; the cookie store
\* is any
CsrfInit ==
  /\ loaded = TRUE
  /\ hidden = FALSE
  /\ \E m \in Markups : forms = <<NewForm(m)>> /\ messages = m.messages
  /\ getsOut = 0
  /\ posts = {}
  /\ getsIssued = 1
  /\ getFailures = 0
  /\ postsIssued = 0
  /\ postFailures = 0
  /\ alerts = 0
  /\ toggles = 1
  /\ submits = 0
  /\ closeClicked = FALSE
  /\ jar \in Jars
  /\ threadUpdatedAt = Undefined
  /\ history = {}

CsrfNext ==
  \/ \E c \in Cookies : AddCookie(c)
  \/ ExpireCookie
  \/ Submit
  \/ \E p \in posts : \E r \in Msgs \cup {NoList} : \E t \in Times :
       SubmitSuccess(p, r, t)
  \/ \E p \in posts : \E k \in Failures : SubmitFailure(p, k)

CsrfSpec == CsrfInit /\ [][CsrfNext]_vars

\* ---- properties -----------------------------------------------------------

\* C1: in every reachable state at most one GET /support/widget/ is outstanding.
\* Fails: loadPanel tests `loaded` only, which stays false until a GET has
\* succeeded, so a second click on the still hidden panel fetches again.
C1_AtMostOneLoadOutstanding == getsOut <= 1

\* C2: in every reachable state at most one POST /support/widget/ is outstanding.
\* Fails: the guard is the disabled flag of the button of one form instance, and
\* the response of a second GET puts a new form, with an enabled button, into
\* the document while the submit of the replaced form is still in flight.
C2_AtMostOneSubmitOutstanding == Cardinality(posts) <= 1

\* C3: a submit event on a form whose button is disabled issues no POST, captures
\* no text and leaves the button, the textarea, the file input and the message
\* list as they were.
C3_SubmitInFlightIsNoOp ==
  [][(submits' = submits + 1 /\ forms[cur].disabled)
       => UNCHANGED <<posts, postsIssued, forms, messages>>]_vars

\* C3 witness: two submit events, one POST issued and still in flight: the
\* second event met the disabled button and was dropped.
C3_Witness ==
  /\ submits = 2
  /\ postsIssued = 1
  /\ \E p \in posts : p.form = cur /\ forms[cur].disabled

\* C4: once loaded is true no step issues a GET, and a toggle click on the
\* hidden panel shows it.
C4_NoFetchOnceLoaded ==
  [][loaded => /\ getsIssued' = getsIssued
               /\ getsOut' <= getsOut
               /\ (toggles' = toggles + 1 /\ hidden => ~hidden')]_vars

\* C4 witness: one GET in all, and two toggle clicks after it succeeded, the
\* second of which showed the hidden panel again.
C4_Witness ==
  /\ loaded
  /\ getsIssued = 1
  /\ toggles = 3
  /\ ~hidden

\* C5: the panel content is inserted at most once: the content in the document
\* is always that of the first successful load.
\* Fails with C1: each of two outstanding GETs that succeeds replaces the content.
C5_ContentInsertedAtMostOnce == cur <= 1

\* C6: with no failed load (and toggle clicks only) the panel is shown, or a load
\* is pending that will show it, after an odd number of clicks, and hidden after
\* an even number.
\* Fails with C1: a second click before the response leaves the panel hidden and
\* fetches again, and the response then shows the panel after two clicks.
C6_VisibilityAlternates ==
  (getFailures = 0 /\ ~closeClicked)
    => IF toggles % 2 = 1 THEN ~hidden \/ getsOut > 0 ELSE hidden

\* C7: the panel is never visible while loaded is false, and loaded is never
\* reset (Uninitialized is not re-entered), so (loaded, visible) is one of
\* Uninitialized, ClosedLoaded and OpenLoaded.
C7_PanelStates ==
  /\ [](~hidden => loaded)
  /\ [][loaded => loaded']_vars

\* C7 witness: ClosedLoaded entered from OpenLoaded by a second toggle click.
C7_Witness ==
  /\ loaded
  /\ hidden
  /\ toggles >= 2
  /\ ~closeClicked

\* C8: a failed GET shows an alert and changes neither loaded, the panel content
\* nor the visibility; after a single GET that failed the panel is hidden and
\* loaded is false.
C8_LoadFailureChangesNothing ==
  /\ [][getFailures' = getFailures + 1
          => /\ alerts' = alerts + 1
             /\ UNCHANGED <<loaded, hidden, forms, messages>>]_vars
  /\ []((getsIssued = 1 /\ getFailures = 1) => (hidden /\ ~loaded))

\* C8 witness: the only GET issued has failed and its alert was shown.
C8_Witness ==
  /\ getsIssued = 1
  /\ getFailures = 1
  /\ alerts = 1

\* C9: after a failed GET, as long as loaded is false, the panel is hidden and a
\* toggle click issues a new GET; a GET that then succeeds leaves the panel
\* loaded and shown.
C9_FailedLoadIsRetried ==
  /\ []((getFailures > 0 /\ ~loaded) => hidden)
  /\ [][getFailures > 0
          => /\ (~loaded /\ toggles' = toggles + 1)
                  => (getsIssued' = getsIssued + 1 /\ getsOut' = getsOut + 1)
             /\ (getsOut' < getsOut /\ getFailures' = getFailures)
                  => (loaded' /\ ~hidden')]_vars

\* C9 witness: two GETs, one of which failed, none outstanding, and the panel
\* is OpenLoaded.
C9_Witness ==
  /\ getsIssued = 2
  /\ getFailures = 1
  /\ getsOut = 0
  /\ loaded
  /\ ~hidden

\* C10: a button is disabled only while a POST of its form is outstanding, the
\* step that resolves a POST (success or failure) leaves the button of its form
\* enabled, and a submit event on a form with no POST outstanding is accepted.
C10_ButtonReEnabled ==
  /\ [](\A f \in DOMAIN forms :
          forms[f].disabled => \E p \in posts : p.form = f)
  /\ [][/\ \A p \in posts :
             (p \notin posts' /\ p.form \in DOMAIN forms')
               => ~forms'[p.form].disabled
        /\ (submits' = submits + 1 /\ ~\E p \in posts : p.form = cur)
             => postsIssued' = postsIssued + 1]_vars

\* C10 witness: one form in all; its first POST failed, and a second submit of
\* the same form was accepted and is in flight.
C10_Witness ==
  /\ getsIssued = 1
  /\ postsIssued = 2
  /\ postFailures = 1
  /\ posts # {}

\* C11: the step that handles a successful POST whose response holds a message
\* list leaves the message list of the document equal to that list, whatever it
\* held before.
C11_MessageListReplaced ==
  [][\A p \in posts : \A r \in Msgs : \A t \in Times :
       SubmitSuccess(p, r, t) => messages' = r]_vars

\* C11 witness: one load and one submit, which succeeded; the list holds "m2".
C11_Witness ==
  /\ getsIssued = 1
  /\ postsIssued = 1
  /\ postFailures = 0
  /\ posts = {}
  /\ messages = "m2"

\* C12 as claimed: a successful submit leaves the textarea as it is if the user
\* edited it while the request was in flight, and empty if not.
\* Fails: the handler compares values (line 101), so a textarea edited back to
\* the submitted text is cleared.
C12_ClearedOnlyIfNoEdits ==
  [][\A p \in posts :
       (/\ \A q \in posts' : q.id # p.id
        /\ postFailures' = postFailures
        /\ p.form \in DOMAIN forms')
         => forms'[p.form].text =
              IF p.edited THEN forms[p.form].text ELSE ""]_vars

\* C12 amended: a successful submit clears the textarea exactly when its value
\* equals the text captured at the submit event; a value that differs is kept,
\* and a textarea the user did not edit is cleared.
C12_ClearedIffValueUnchanged ==
  [][\A p \in posts :
       (/\ \A q \in posts' : q.id # p.id
        /\ postFailures' = postFailures
        /\ p.form \in DOMAIN forms')
         => /\ forms'[p.form].text =
                 IF forms[p.form].text = p.submittedText
                   THEN "" ELSE forms[p.form].text
            /\ ~p.edited => forms'[p.form].text = ""]_vars

\* C12 witness: a submit of the form in the document is in flight and the user
\* has since changed the textarea to a text other than the submitted one.
C12_Witness ==
  \E p \in posts :
    /\ p.form = cur
    /\ p.edited
    /\ forms[cur].text = "a"
    /\ p.submittedText = ""

\* C13: the step that handles a failed POST shows an alert and leaves the
\* message list, threadUpdatedAt and every textarea and file input as they
\* were; of the form of the request it changes the button only, which it
\* leaves enabled.
C13_SubmitFailureKeepsInputs ==
  [][postFailures' = postFailures + 1
       => /\ alerts' = alerts + 1
          /\ messages' = messages
          /\ threadUpdatedAt' = threadUpdatedAt
          /\ \A f \in DOMAIN forms' :
               /\ forms'[f].text = forms[f].text
               /\ forms'[f].file = forms[f].file
               /\ (\A p \in posts \ posts' : p.form # f) => forms'[f] = forms[f]
               /\ (\E p \in posts \ posts' : p.form = f) => ~forms'[f].disabled]_vars

\* C13 witness: the only submit failed; the textarea still holds "a", the file
\* is still selected, threadUpdatedAt is still the page's "t0", the button is
\* enabled again.
C13_Witness ==
  /\ submits = 1
  /\ postFailures = 1
  /\ alerts = 1
  /\ threadUpdatedAt = "t0"
  /\ forms[cur].text = "a"
  /\ forms[cur].file
  /\ ~forms[cur].disabled

\* C14: while loaded is false no POST has been issued and none is outstanding.
C14_NoPostBeforeLoad == ~loaded => (postsIssued = 0 /\ posts = {})

\* C14 witness: a load failed, a later one succeeded, and only then a POST was
\* issued.
C14_Witness ==
  /\ getFailures = 1
  /\ loaded
  /\ postsIssued = 1

\* the value of the first cookie of store j that is named exactly csrftoken,
\* the empty string if there is none
CsrfCookieValue(j) ==
  IF \E i \in 1..Len(j) : j[i].name = CookieName
    THEN j[CHOOSE i \in 1..Len(j) :
             /\ j[i].name = CookieName
             /\ \A h \in 1..(i - 1) : j[h].name # CookieName].value
    ELSE << >>

\* C15: a POST carries as X-CSRFToken the value of the csrftoken cookie held at
\* the submit event, the empty string if there is no cookie of that name, and
\* the submit event leaves the cookies as they are.
C15_CsrfHeaderIsCookieValue ==
  [][/\ \A p \in posts' \ posts : p.csrf = CsrfCookieValue(jar)
     /\ submits' # submits => jar' = jar]_vars

\* C15 witness: a POST in flight carries the value "v=w" of a csrftoken cookie
\* that comes second in document.cookie, after a cookie whose name only begins
\* with csrftoken.
C15_Witness ==
  /\ Len(jar) = 2
  /\ jar[1].name = <<"csrftoken", "x">>
  /\ jar[2] = [name |-> CookieName, value |-> <<"v", "=", "w">>]
  /\ \E p \in posts : p.csrf = <<"v", "=", "w">>

\* C16: the number of alerts shown equals the number of requests that have
\* failed.
C16_OneAlertPerFailure == alerts = getFailures + postFailures

\* C16 witness: a GET and a POST have failed, a GET and a POST have succeeded,
\* two alerts were shown.
C16_Witness ==
  /\ getFailures = 1
  /\ postFailures = 1
  /\ alerts = 2
  /\ loaded
  /\ postsIssued = 2
  /\ posts = {}

\* C17: no more GETs than toggle clicks and no more POSTs than submit events;
\* a step issues at most one request, a GET only with a toggle click and a POST
\* only with a submit event, and a step that completes a request issues none.
C17_NoAutomaticRetry ==
  /\ [](getsIssued <= toggles /\ postsIssued <= submits)
  /\ [][/\ getsIssued' # getsIssued
             => (getsIssued' = getsIssued + 1 /\ toggles' = toggles + 1)
        /\ postsIssued' # postsIssued
             => (postsIssued' = postsIssued + 1 /\ submits' = submits + 1)
        /\ (getsOut' < getsOut \/ posts \ posts' # {})
             => (getsIssued' = getsIssued /\ postsIssued' = postsIssued)]_vars

\* C17 witness: a GET and a POST have failed and nothing was issued for them:
\* the second GET came with the second click, no second POST was issued.
C17_Witness ==
  /\ toggles = 2
  /\ getsIssued = 2
  /\ getFailures = 1
  /\ getsOut = 0
  /\ submits = 1
  /\ postsIssued = 1
  /\ postFailures = 1

C19_ThreadUpdatedAt ==
  [][/\ threadUpdatedAt' # threadUpdatedAt
          => /\ threadUpdatedAt \notin {Undefined, ""}
             /\ posts \ posts' # {}
             /\ postFailures' = postFailures
     /\ (posts \ posts' # {} /\ postFailures' = postFailures)
          => IF threadUpdatedAt \in {Undefined, ""}
               THEN threadUpdatedAt' = threadUpdatedAt
               ELSE threadUpdatedAt' \in Times]_vars

\* C19 witness: a submit has failed and a submit has succeeded on a page that
\* defined threadUpdatedAt; it holds the time read by the success handler.
C19_Witness ==
  /\ postsIssued = 2
  /\ postFailures = 1
  /\ posts = {}
  /\ threadUpdatedAt = "t1"

\* C20: the button of a form instance is disabled exactly while a POST issued
\* for that instance is outstanding.
C20_DisabledIffOutstanding ==
  \A f \in DOMAIN forms :
    forms[f].disabled <=> \E p \in posts : p.form = f

\* C20 witness: a detached form with its POST in flight and its button disabled,
\* next to the form in the document, with no POST and its button enabled.
C20_Witness ==
  /\ DOMAIN forms = {1, 2}
  /\ forms[1].disabled
  /\ ~forms[2].disabled
  /\ posts # {}
====
